---- MODULE Spec2Model ----
(***************************************************************************)
(* The conversational memory and request orchestration of lang_ai:         *)
(* the useAIChat hook (src/src/hooks/useAIQuery.ts), the credential check  *)
(* and retry policy it uses (src/src/lib/errorHandling.ts,                 *)
(* src/src/lib/chatConfig.ts) and the AIChat component's send handler       *)
(* (src/unnamed/part_002); the API key of the application                  *)
(* (src/src/hooks/useApiKey.ts, src/src/components/ApiKeyConfig.tsx,       *)
(* src/src/App.tsx); the saved recipes of useRecipeGenerator               *)
(* (src/src/hooks/useRecipeGenerator.ts); and the ConversationalAI         *)
(* component (src/unnamed/part_001).                                       *)
(*                                                                         *)
(* Strings whose characters the code inspects (API keys, user text, error  *)
(* descriptions) are sequences of one-character strings.                   *)
(***************************************************************************)
EXTENDS Integers, Sequences, FiniteSets, TLC

VARIABLES
    maxMessages,   \* config.maxMessages of this useAIChat instance
    messages,      \* the useState<ChatMessage[]> value
    mutations,     \* the mutations built by sendMessage, in the order issued
    toast,         \* the toast shown by the last step, "none" if it showed none
    now,           \* Date.now()
    description,   \* the words of a failure's description
    failure,       \* the value a failed operation threw
    failCount,     \* the failure count the retry policy is asked about
    classified,    \* what parseAIError returned for failure, NoError before
    retried,       \* the answers retryConfig.retry gave, none before
    delays,        \* the delays retryConfig.retryDelay gave, none before
    env,           \* import.meta.env.VITE_OPENAI_API_KEY
    localStorage,  \* the entries of window.localStorage the program uses
    hooks,         \* the state of the useApiKey instance of each component
    apiKeyConfig,  \* the state of the ApiKeyConfig modal
    savedRecipes,  \* the useState<Recipe[]> value of useRecipeGenerator
    conversation   \* the state of the ConversationalAI component

chatVars == <<maxMessages, messages, mutations, toast, now>>

policyVars == <<description, failure, failCount, classified, retried, delays>>

appVars == <<env, localStorage, hooks, apiKeyConfig, savedRecipes, conversation>>

vars == <<maxMessages, messages, mutations, toast, now,
          description, failure, failCount, classified, retried, delays,
          env, localStorage, hooks, apiKeyConfig, savedRecipes, conversation>>

----------------------------------------------------------------------------
(* Bounds of the model *)

MaxBound == 1      \* largest maxMessages configured
MaxInit == 1       \* longest initialMessages / reset list
MaxSends == 2      \* sends issued in one behaviour
MaxWords == 2      \* words in a failure description
MaxFailureCount == 5   \* largest failure count the retry policy is asked about
MaxLag == 2        \* most milliseconds between the reply and its onSuccess
MaxSaved == 4      \* most recipes saved at a time
MaxShown == 5      \* messages shown before the last send of a behaviour

----------------------------------------------------------------------------
(* JavaScript string and array primitives *)

Min(a, b) == IF a < b THEN a ELSE b

Max(a, b) == IF a > b THEN a ELSE b

Repeat(c, n) == [i \in 1..n |-> c]

\* Array.prototype.slice(start) and String.prototype.slice(start)
Slice(s, start) ==
    LET n == Len(s)
        from == IF start < 0 THEN Max(n + start, 0) ELSE Min(start, n)
    IN  SubSeq(s, from + 1, n)

\* String.prototype.startsWith
StartsWith(s, p) == Len(s) >= Len(p) /\ SubSeq(s, 1, Len(p)) = p

\* String.prototype.includes
Includes(s, sub) ==
    \E i \in 0..(Len(s) - Len(sub)) : SubSeq(s, i + 1, i + Len(sub)) = sub

UpperCase ==
    {"A", "B", "C", "D", "E", "F", "G", "H", "I", "J", "K", "L", "M",
     "N", "O", "P", "Q", "R", "S", "T", "U", "V", "W", "X", "Y", "Z"}

LowerOf ==
    [c \in UpperCase |->
        CASE c = "A" -> "a" [] c = "B" -> "b" [] c = "C" -> "c" [] c = "D" -> "d"
          [] c = "E" -> "e" [] c = "F" -> "f" [] c = "G" -> "g" [] c = "H" -> "h"
          [] c = "I" -> "i" [] c = "J" -> "j" [] c = "K" -> "k" [] c = "L" -> "l"
          [] c = "M" -> "m" [] c = "N" -> "n" [] c = "O" -> "o" [] c = "P" -> "p"
          [] c = "Q" -> "q" [] c = "R" -> "r" [] c = "S" -> "s" [] c = "T" -> "t"
          [] c = "U" -> "u" [] c = "V" -> "v" [] c = "W" -> "w" [] c = "X" -> "x"
          [] c = "Y" -> "y" [] c = "Z" -> "z"]

\* String.prototype.toLowerCase
ToLowerCase(s) ==
    [i \in 1..Len(s) |-> IF s[i] \in UpperCase THEN LowerOf[s[i]] ELSE s[i]]

WhiteSpace == {" ", "\t", "\n"}

RECURSIVE TrimStart(_)
TrimStart(s) ==
    IF s # <<>> /\ Head(s) \in WhiteSpace THEN TrimStart(Tail(s)) ELSE s

RECURSIVE TrimEnd(_)
TrimEnd(s) ==
    IF s # <<>> /\ s[Len(s)] \in WhiteSpace
    THEN TrimEnd(SubSeq(s, 1, Len(s) - 1))
    ELSE s

\* String.prototype.trim
Trim(s) == TrimEnd(TrimStart(s))

----------------------------------------------------------------------------
(* src/src/lib/errorHandling.ts *)

ERROR_CODES ==
    [NO_API_KEY      |-> "NO_API_KEY",
     INVALID_API_KEY |-> "INVALID_API_KEY",
     RATE_LIMIT      |-> "RATE_LIMIT",
     NETWORK_ERROR   |-> "NETWORK_ERROR",
     TIMEOUT         |-> "TIMEOUT",
     MODEL_ERROR     |-> "MODEL_ERROR",
     UNKNOWN         |-> "UNKNOWN"]

\* new AIError(message, code, isRetryable); the display text is not modelled
AIError(code, isRetryable) ==
    [type |-> "AIError", code |-> code, isRetryable |-> isRetryable]

\* new Error(message)
Error(message) == [type |-> "Error", message |-> message]

\* a thrown value that is not an Error object
NonError == [type |-> "NonError"]

\* "nothing thrown" / mutation.error === null
NoError == [type |-> "null"]

s_api_key == <<"a", "p", "i", " ", "k", "e", "y">>
s_not == <<"n", "o", "t">>
s_invalid == <<"i", "n", "v", "a", "l", "i", "d">>
s_unauthorized == <<"u", "n", "a", "u", "t", "h", "o", "r", "i", "z", "e", "d">>
s_rate_limit == <<"r", "a", "t", "e", " ", "l", "i", "m", "i", "t">>
s_429 == <<"4", "2", "9">>
s_network == <<"n", "e", "t", "w", "o", "r", "k">>
s_fetch == <<"f", "e", "t", "c", "h">>
s_timeout == <<"t", "i", "m", "e", "o", "u", "t">>
s_model == <<"m", "o", "d", "e", "l">>
s_sk == <<"s", "k", "-">>

\* parseAIError matching the message as it is written
parseAIErrorCaseSensitive(error) ==
    IF error.type = "AIError" THEN error
    ELSE IF error.type = "Error" THEN
        LET message == error.message IN
        IF Includes(message, s_api_key) /\ Includes(message, s_not)
            THEN AIError(ERROR_CODES.NO_API_KEY, FALSE)
        ELSE IF Includes(message, s_invalid) \/ Includes(message, s_unauthorized)
            THEN AIError(ERROR_CODES.INVALID_API_KEY, FALSE)
        ELSE IF Includes(message, s_rate_limit) \/ Includes(message, s_429)
            THEN AIError(ERROR_CODES.RATE_LIMIT, TRUE)
        ELSE IF Includes(message, s_network) \/ Includes(message, s_fetch)
            THEN AIError(ERROR_CODES.NETWORK_ERROR, TRUE)
        ELSE IF Includes(message, s_timeout)
            THEN AIError(ERROR_CODES.TIMEOUT, TRUE)
        ELSE IF Includes(message, s_model)
            THEN AIError(ERROR_CODES.MODEL_ERROR, TRUE)
        ELSE AIError(ERROR_CODES.UNKNOWN, TRUE)
    ELSE AIError(ERROR_CODES.UNKNOWN, TRUE)

\* parseAIError testing for "rate limit" alone
parseAIErrorNo429(error) ==
    IF error.type = "AIError" THEN error
    ELSE IF error.type = "Error" THEN
        LET message == ToLowerCase(error.message) IN
        IF Includes(message, s_api_key) /\ Includes(message, s_not)
            THEN AIError(ERROR_CODES.NO_API_KEY, FALSE)
        ELSE IF Includes(message, s_invalid) \/ Includes(message, s_unauthorized)
            THEN AIError(ERROR_CODES.INVALID_API_KEY, FALSE)
        ELSE IF Includes(message, s_rate_limit)
            THEN AIError(ERROR_CODES.RATE_LIMIT, TRUE)
        ELSE IF Includes(message, s_network) \/ Includes(message, s_fetch)
            THEN AIError(ERROR_CODES.NETWORK_ERROR, TRUE)
        ELSE IF Includes(message, s_timeout)
            THEN AIError(ERROR_CODES.TIMEOUT, TRUE)
        ELSE IF Includes(message, s_model)
            THEN AIError(ERROR_CODES.MODEL_ERROR, TRUE)
        ELSE AIError(ERROR_CODES.UNKNOWN, TRUE)
    ELSE AIError(ERROR_CODES.UNKNOWN, TRUE)

\* parseAIError leaving the code of an unexpected value to AIError's default
parseAIErrorDefaultCode(error) ==
    IF error.type = "AIError" THEN error
    ELSE IF error.type = "Error" THEN
        LET message == ToLowerCase(error.message) IN
        IF Includes(message, s_api_key) /\ Includes(message, s_not)
            THEN AIError(ERROR_CODES.NO_API_KEY, FALSE)
        ELSE IF Includes(message, s_invalid) \/ Includes(message, s_unauthorized)
            THEN AIError(ERROR_CODES.INVALID_API_KEY, FALSE)
        ELSE IF Includes(message, s_rate_limit) \/ Includes(message, s_429)
            THEN AIError(ERROR_CODES.RATE_LIMIT, TRUE)
        ELSE IF Includes(message, s_network) \/ Includes(message, s_fetch)
            THEN AIError(ERROR_CODES.NETWORK_ERROR, TRUE)
        ELSE IF Includes(message, s_timeout)
            THEN AIError(ERROR_CODES.TIMEOUT, TRUE)
        ELSE IF Includes(message, s_model)
            THEN AIError(ERROR_CODES.MODEL_ERROR, TRUE)
        ELSE AIError(ERROR_CODES.UNKNOWN, TRUE)
    ELSE AIError("UNKNOWN_ERROR", TRUE)

parseAIError(error) ==
    IF error.type = "AIError" THEN error
    ELSE IF error.type = "Error" THEN
        LET message == ToLowerCase(error.message) IN
        IF Includes(message, s_api_key) /\ Includes(message, s_not)
            THEN AIError(ERROR_CODES.NO_API_KEY, FALSE)
        ELSE IF Includes(message, s_invalid) \/ Includes(message, s_unauthorized)
            THEN AIError(ERROR_CODES.INVALID_API_KEY, FALSE)
        ELSE IF Includes(message, s_rate_limit) \/ Includes(message, s_429)
            THEN AIError(ERROR_CODES.RATE_LIMIT, TRUE)
        ELSE IF Includes(message, s_network) \/ Includes(message, s_fetch)
            THEN AIError(ERROR_CODES.NETWORK_ERROR, TRUE)
        ELSE IF Includes(message, s_timeout)
            THEN AIError(ERROR_CODES.TIMEOUT, TRUE)
        ELSE IF Includes(message, s_model)
            THEN AIError(ERROR_CODES.MODEL_ERROR, TRUE)
        ELSE AIError(ERROR_CODES.UNKNOWN, TRUE)
    ELSE AIError(ERROR_CODES.UNKNOWN, TRUE)

\* isRetryableError taking every error for retryable
isRetryableAlways(error) == TRUE

isRetryableError(error) == parseAIError(error).isRetryable

\* retryConfig.retry allowing one more retry
retryOneMore(failureCount, error) ==
    IF failureCount >= 4 THEN FALSE ELSE isRetryableError(error)

\* retryConfig.retry
retry(failureCount, error) ==
    IF failureCount >= 3 THEN FALSE ELSE isRetryableError(error)

\* retryDelay without the cap
retryDelayUncapped(attemptIndex) == 1000 * 2 ^ attemptIndex

\* retryConfig.retryDelay
retryDelay(attemptIndex) == Min(1000 * 2 ^ attemptIndex, 30000)

\* validateApiKey leaving the missing-key error retryable (AIError's default)
validateApiKeyRetryable(apiKey) ==
    IF apiKey = <<>> THEN AIError(ERROR_CODES.NO_API_KEY, TRUE)
    ELSE IF ~StartsWith(apiKey, s_sk) THEN AIError(ERROR_CODES.INVALID_API_KEY, FALSE)
    ELSE IF Len(apiKey) < 20 THEN AIError(ERROR_CODES.INVALID_API_KEY, FALSE)
    ELSE NoError

\* validateApiKey without the length check
validateApiKeyNoLength(apiKey) ==
    IF apiKey = <<>> THEN AIError(ERROR_CODES.NO_API_KEY, FALSE)
    ELSE IF ~StartsWith(apiKey, s_sk) THEN AIError(ERROR_CODES.INVALID_API_KEY, FALSE)
    ELSE NoError

\* validateApiKey: the AIError it throws, or NoError when it returns
validateApiKey(apiKey) ==
    IF apiKey = <<>> THEN AIError(ERROR_CODES.NO_API_KEY, FALSE)
    ELSE IF ~StartsWith(apiKey, s_sk) THEN AIError(ERROR_CODES.INVALID_API_KEY, FALSE)
    ELSE IF Len(apiKey) < 20 THEN AIError(ERROR_CODES.INVALID_API_KEY, FALSE)
    ELSE NoError

----------------------------------------------------------------------------
(* src/src/lib/chatConfig.ts *)

s_Invalid_OpenAI_API_key ==
    <<"I", "n", "v", "a", "l", "i", "d", " ", "O", "p", "e", "n", "A", "I", " ",
      "A", "P", "I", " ", "k", "e", "y">>

\* createChatModel: the Error it throws, or NoError when it returns a model
createChatModel(apiKey) ==
    IF apiKey = <<>> \/ ~StartsWith(apiKey, s_sk)
    THEN Error(s_Invalid_OpenAI_API_key)
    ELSE NoError

isValidApiKey(apiKey) == StartsWith(apiKey, s_sk) /\ Len(apiKey) > 20

----------------------------------------------------------------------------
(* Inputs drawn by the model *)

\* a key of n characters starting with prefix
Key(prefix, n) == prefix \o Repeat("x", n - Len(prefix))

ApiKeys ==
    {<<>>,                         \* absent
     Key(<<"p", "k", "-">>, 24),   \* long enough, wrong prefix
     Key(s_sk, 19),                \* right prefix, too short
     Key(s_sk, 24)}                \* right prefix, long enough

\* the message a caller of the hook's sendMessage passes
UserTexts == {<<>>, <<"h">>}

\* the content of AIChat's text area
Inputs == {<<>>, <<" ">>, <<" ", "h", " ">>}

\* what chatModel.invoke resolves with: response.content is a string or a
\* list of content parts
Responses ==
    {[kind |-> "string", text |-> <<"o", "k">>],
     [kind |-> "parts", text |-> <<"o", "k">>]}

\* words of the descriptions of failures
w_API_key == <<"A", "P", "I", " ", "k", "e", "y">>
w_Not == <<"N", "o", "t">>
w_INVALID == <<"I", "N", "V", "A", "L", "I", "D">>
w_Unauthorized == <<"U", "n", "a", "u", "t", "h", "o", "r", "i", "z", "e", "d">>
w_Rate_Limit == <<"R", "a", "t", "e", " ", "L", "i", "m", "i", "t">>
w_429 == <<"4", "2", "9">>
w_Network == <<"N", "e", "t", "w", "o", "r", "k">>
w_fetch == <<"f", "e", "t", "c", "h">>
w_TIMEOUT == <<"T", "I", "M", "E", "O", "U", "T">>
w_Model == <<"M", "o", "d", "e", "l">>
w_boom == <<"b", "o", "o", "m">>

Words ==
    {w_API_key, w_Not, w_INVALID, w_Unauthorized, w_Rate_Limit, w_429,
     w_Network, w_fetch, w_TIMEOUT, w_Model, w_boom}

\* a description: up to MaxWords words
Descriptions == UNION {[1..n -> Words] : n \in 0..MaxWords}

\* the text of a description: its words with a space between them
RECURSIVE Join(_)
Join(words) ==
    IF words = <<>> THEN <<>>
    ELSE IF Len(words) = 1 THEN words[1]
    ELSE words[1] \o <<" ">> \o Join(Tail(words))

\* the values thrown with description d: an Error carrying its text and,
\* with no description, a value that is no Error or an AIError of
\* validateApiKey
Thrown(d) ==
    {Error(Join(d))}
        \cup (IF d = <<>>
              THEN {NonError, validateApiKey(<<>>), validateApiKey(<<"x">>)}
              ELSE {})

\* what chatModel.invoke rejects with
Failures ==
    {Error(<<"R", "a", "t", "e", " ", "l", "i", "m", "i", "t", " ", "(", "4", "2", "9", ")">>),
     Error(<<"4", "0", "1", " ", "U", "n", "a", "u", "t", "h", "o", "r", "i", "z", "e", "d">>),
     Error(<<"b", "o", "o", "m">>),
     NonError}

----------------------------------------------------------------------------
(* src/src/hooks/useAIQuery.ts: useAIChat *)

\* line 206: the maxMessages of a configuration that gives none (AIChat,
\* src/unnamed/part_002 lines 54-56, passes the same value)
DefaultMaxMessages == 10

ChatMessage(role, content, timestamp) ==
    [role |-> role, content |-> content, timestamp |-> timestamp]

\* mutation.data === undefined
NoData == [role |-> "undefined", content |-> <<>>, timestamp |-> 0]

HumanMessage(content) == [type |-> "human", content |-> content]

AIMessage(content) == [type |-> "ai", content |-> content]

\* JSON.stringify of a list of content parts: not the text itself
JSONstringify(text) == <<"[", "{">> \o text \o <<"}", "]">>

\* lines 223-233: the message sequence handed to chatModel.invoke
messageHistory(msgs, maxM, message) ==
    LET window == Slice(msgs, -(maxM * 2))
        history == [i \in 1..Len(window) |->
                       IF window[i].role = "user"
                       THEN HumanMessage(window[i].content)
                       ELSE AIMessage(window[i].content)]
    IN  Append(history, HumanMessage(message))

\* lines 238-249: the assistant message built from the response
assistantMessageOf(response, clock) ==
    ChatMessage("assistant",
                IF response.kind = "string"
                THEN response.text
                ELSE JSONstringify(response.text),
                clock)

\* onSuccess forgetting the user turn
onSuccessNoUser(prev, assistantMessage, variables, maxM, clock) ==
    LET newMessages == Append(prev, assistantMessage)
    IN  IF Len(newMessages) > maxM * 2
        THEN Slice(newMessages, -(maxM * 2))
        ELSE newMessages

\* onSuccess trimming the newest turns instead of the oldest
onSuccessKeepOldest(prev, assistantMessage, variables, maxM, clock) ==
    LET userMessage == ChatMessage("user", variables.message, clock - 1)
        newMessages == prev \o <<userMessage, assistantMessage>>
    IN  IF Len(newMessages) > maxM * 2
        THEN SubSeq(newMessages, 1, maxM * 2)
        ELSE newMessages

\* onSuccess storing the reply before the user turn
onSuccessSwapped(prev, assistantMessage, variables, maxM, clock) ==
    LET userMessage == ChatMessage("user", variables.message, clock - 1)
        newMessages == prev \o <<assistantMessage, userMessage>>
    IN  IF Len(newMessages) > maxM * 2
        THEN Slice(newMessages, -(maxM * 2))
        ELSE newMessages

\* onSuccess storing the exchange over the turns already stored
onSuccessOverwrites(prev, assistantMessage, variables, maxM, clock) ==
    LET userMessage == ChatMessage("user", variables.message, clock - 1)
        newMessages == <<userMessage, assistantMessage>>
    IN  IF Len(newMessages) > maxM * 2
        THEN Slice(newMessages, -(maxM * 2))
        ELSE newMessages

\* onSuccess dropping a reply that finds the store cleared
onSuccessUnlessCleared(prev, assistantMessage, variables, maxM, clock) ==
    LET userMessage == ChatMessage("user", variables.message, clock - 1)
        newMessages == prev \o <<userMessage, assistantMessage>>
    IN  IF prev = <<>> THEN prev
        ELSE IF Len(newMessages) > maxM * 2
        THEN Slice(newMessages, -(maxM * 2))
        ELSE newMessages

\* onSuccess storing the exchange once per attempt made
onSuccessTwice(prev, assistantMessage, variables, maxM, clock) ==
    LET userMessage == ChatMessage("user", variables.message, clock - 1)
        newMessages == prev \o <<userMessage, assistantMessage,
                                 userMessage, assistantMessage>>
    IN  IF Len(newMessages) > maxM * 2
        THEN Slice(newMessages, -(maxM * 2))
        ELSE newMessages

\* lines 261-278: the setMessages updater of onSuccess
onSuccess(prev, assistantMessage, variables, maxM, clock) ==
    LET userMessage == ChatMessage("user", variables.message, clock - 1)
        newMessages == prev \o <<userMessage, assistantMessage>>
    IN  IF Len(newMessages) > maxM * 2
        THEN Slice(newMessages, -(maxM * 2))
        ELSE newMessages

\* onError recording the user turn of the failed send
onErrorKeepsUser(prev, error, variables) ==
    Append(prev, ChatMessage("user", variables.message, 0))

\* lines 280-283: onError only logs; the messages it leaves
onError(prev, error, variables) == prev

\* a mutation built by mutation.mutateAsync(variables)
NewMutation(message, apiKey, ui, closure) ==
    [variables     |-> [message |-> message, apiKey |-> apiKey],
     ui            |-> ui,         \* awaited by AIChat.handleSend
     status        |-> "pending",
     stage         |-> "start",
     failureCount  |-> 0,
     error         |-> NoError,
     data          |-> NoData,
     calls         |-> 0,          \* invocations of chatModel.invoke
     appends       |-> 0,          \* setMessages calls made for it
     closure       |-> closure,    \* the messages its mutationFn closes over
     outbound      |-> <<>>]       \* the sequence given to chatModel.invoke

\* the mutationFn rejected with error: retried by retryConfig, or settled
Failed(m, error) ==
    IF retry(m.failureCount, error)
    THEN [m EXCEPT !.failureCount = @ + 1, !.stage = "retryDelay",
                   !.outbound = <<>>]
    ELSE [m EXCEPT !.status = "error", !.error = error,
                   !.stage = "settled", !.outbound = <<>>, !.closure = <<>>]

\* lines 215-236: mutationFn up to the await of chatModel.invoke
mutationFn(m, maxM) ==
    LET invalid == validateApiKey(m.variables.apiKey)
        noModel == createChatModel(m.variables.apiKey)
    IN  IF invalid # NoError THEN Failed(m, invalid)
        ELSE IF noModel # NoError THEN Failed(m, parseAIError(noModel))
        ELSE [m EXCEPT !.stage = "invoked", !.calls = @ + 1,
                       !.outbound = messageHistory(m.closure, maxM, m.variables.message)]

\* lines 236-251 and 261-278: chatModel.invoke resolved
Succeeded(m, response, clock) ==
    [m EXCEPT !.status = "success", !.stage = "settled",
              !.data = assistantMessageOf(response, clock),
              !.appends = @ + 1, !.outbound = <<>>, !.closure = <<>>]

\* lines 205-212: a render hands a mutationFn closing over the new messages
\* to the mutation the hook observes (the last one issued) while it is pending
Render(muts, msgs) ==
    [i \in 1..Len(muts) |->
        IF i = Len(muts) /\ muts[i].status = "pending"
        THEN [muts[i] EXCEPT !.closure = msgs]
        ELSE muts[i]]

\* isLoading stuck at false
isLoadingNever == FALSE

\* line 316: isLoading: mutation.isPending
isLoading == mutations # <<>> /\ mutations[Len(mutations)].status = "pending"

Pending == {i \in 1..Len(mutations) : mutations[i].status = "pending"}

\* lines 313-326: the hook exposes the state of the mutation it observes, the
\* last one issued; of a settled mutation it observes no longer, only the
\* outcome is kept
Collected(m) ==
    [NewMutation(<<>>, <<>>, FALSE, <<>>) EXCEPT
        !.status = m.status, !.stage = "collected", !.appends = m.appends]

Observed(muts) ==
    [i \in 1..Len(muts) |->
        IF i # Len(muts) /\ muts[i].status # "pending"
        THEN Collected(muts[i])
        ELSE muts[i]]

\* src/unnamed/part_002 lines 106-110: the toast AIChat.handleSend shows once
\* the send it awaits has settled (an error's message is shown as its code)
ToastAfter(m) ==
    IF ~m.ui THEN "none"
    ELSE IF m.status = "success" THEN "Message sent!"
    ELSE IF m.status = "error" THEN m.error.code
    ELSE "none"

----------------------------------------------------------------------------
(* src/src/hooks/useApiKey.ts *)

\* null and undefined: no string at all
Null == <<"(null)">>

\* neither null, undefined nor the empty string
Truthy(v) == v # Null /\ v # <<>>

API_KEY_STORAGE_KEY == "openai-api-key"

\* the components that call useApiKey, each with an instance of its own
Components == {"App", "AIChat", "RecipeGenerator"}

\* lines 30-32: the state of an instance before its effect has run
useApiKeyState == [apiKey |-> Null, showModal |-> FALSE, isInitialized |-> FALSE]

\* the mount effect looking into localStorage first
useEffectStoredFirst(hook, envKey, storedKey) ==
    IF Truthy(storedKey)
    THEN [hook EXCEPT !.apiKey = storedKey, !.isInitialized = TRUE]
    ELSE IF Truthy(envKey) /\ Truthy(Trim(envKey))
    THEN [hook EXCEPT !.apiKey = envKey, !.isInitialized = TRUE]
    ELSE [hook EXCEPT !.showModal = TRUE, !.isInitialized = TRUE]

\* lines 35-67: the mount effect
useEffect(hook, envKey, storedKey) ==
    IF Truthy(envKey) /\ Truthy(Trim(envKey))
    THEN [hook EXCEPT !.apiKey = envKey, !.isInitialized = TRUE]
    ELSE IF Truthy(storedKey)
    THEN [hook EXCEPT !.apiKey = storedKey, !.isInitialized = TRUE]
    ELSE [hook EXCEPT !.showModal = TRUE, !.isInitialized = TRUE]

\* line 82
hasApiKey(hook) == Truthy(hook.apiKey)

\* line 83
showModal(hook) == hook.showModal /\ hook.isInitialized

\* src/src/components/ApiKeyConfig.tsx lines 23-24: the input and the error
ApiKeyConfigState == [apiKey |-> <<>>, error |-> ""]

\* src/src/App.tsx lines 73-87: the apiKey each AI feature works with; AIChat
\* and RecipeGenerator call useApiKey themselves, SimpleAIQuery is handed the
\* apiKey of App
Features == {"AIChat", "RecipeGenerator", "SimpleAIQuery"}

apiKeyOf(feature) ==
    IF feature = "SimpleAIQuery" THEN hooks["App"].apiKey ELSE hooks[feature].apiKey

----------------------------------------------------------------------------
(* src/src/hooks/useRecipeGenerator.ts *)

STORAGE_KEY == "saved-recipes"

StorageKeys == {API_KEY_STORAGE_KEY, STORAGE_KEY}

\* a Recipe; its tone, cuisine, steps and content are carried like its dish
Recipe(id, dish, timestamp) == [id |-> id, dish |-> dish, timestamp |-> timestamp]

\* the timestamps a recipe carries
Timestamps == 1..2

\* JSON.stringify(updated): the text is a sequence of tokens, a number being
\* written in digits
RECURSIVE RecipesText(_)
RecipesText(recipes) ==
    IF recipes = <<>> THEN <<>>
    ELSE LET r == Head(recipes)
         IN  <<"{", r.id, r.dish, ToString(r.timestamp), "}">>
                 \o RecipesText(Tail(recipes))

stringifyRecipes(recipes) == <<"[">> \o RecipesText(recipes) \o <<"]">>

\* the text is the JSON of a list of recipes
IsRecipesText(text) ==
    /\ Len(text) >= 2
    /\ (Len(text) - 2) % 5 = 0
    /\ text[1] = "["
    /\ text[Len(text)] = "]"
    /\ \A i \in 1..((Len(text) - 2) \div 5) :
          /\ text[5 * i - 3] = "{"
          /\ \E n \in Timestamps : ToString(n) = text[5 * i]
          /\ text[5 * i + 1] = "}"

\* JSON.parse(stored)
parseRecipes(text) ==
    [i \in 1..((Len(text) - 2) \div 5) |->
        Recipe(text[5 * i - 2], text[5 * i - 1],
               CHOOSE n \in Timestamps : ToString(n) = text[5 * i])]

\* lines 69-78: the lazy initial state; a text that does not parse is caught
loadSavedRecipes(stored) ==
    IF ~Truthy(stored) THEN <<>>
    ELSE IF IsRecipesText(stored) THEN parseRecipes(stored)
    ELSE <<>>

----------------------------------------------------------------------------
(* src/unnamed/part_001: ConversationalAI *)

\* a displayed Message
Message(role, content) == [role |-> role, content |-> content]

\* no chain.invoke is awaited
NoCall == [input |-> <<>>, history |-> <<>>]

\* lines 15-19: the state of the component when it mounts
ConversationalAIState ==
    [messages |-> <<>>, chatHistory |-> <<>>, loading |-> FALSE, error |-> "",
     invoked |-> NoCall]

----------------------------------------------------------------------------
(* State machine *)

SampleMessages == {ChatMessage("assistant", <<"o", "k">>, 0)}

\* the lists given as config.initialMessages and to reset
MessageLists ==
    UNION {[1..n -> SampleMessages] : n \in 0..MaxInit}

\* no failure is being classified
PolicyIdle ==
    /\ description = <<>>
    /\ failure = NonError
    /\ failCount = 0
    /\ classified = NoError
    /\ retried = {}
    /\ delays = <<>>

\* the application around the chat is left as it mounts
AppIdle ==
    /\ env = Null
    /\ localStorage = [k \in StorageKeys |-> Null]
    /\ hooks = [c \in Components |-> useApiKeyState]
    /\ apiKeyConfig = ApiKeyConfigState
    /\ savedRecipes = <<>>
    /\ conversation = ConversationalAIState

\* no chat is going on
ChatIdle ==
    /\ maxMessages = DefaultMaxMessages
    /\ messages = <<>>
    /\ mutations = <<>>
    /\ toast = "none"
    /\ now = 0

Init ==
    /\ maxMessages \in 0..MaxBound
    /\ messages \in MessageLists
    /\ mutations = <<>>
    /\ toast = "none"
    /\ now = 0
    /\ PolicyIdle
    /\ AppIdle

\* the sends issued in one behaviour: MaxSends, or with a larger maxMessages
\* the sends it takes to store more than maxMessages turns and send them
MaxIssued == Max(MaxSends, maxMessages \div 2 + 2)

\* mutation.mutateAsync(input): the mutation is built and its mutationFn runs
\* up to the await
Issue(message, apiKey, ui) ==
    /\ Len(mutations) < MaxIssued
    /\ LET m == mutationFn(NewMutation(message, apiKey, ui, messages), maxMessages)
       IN  /\ mutations' = Observed(Append(mutations, m))
           /\ messages' = IF m.status = "error"
                          THEN onError(messages, m.error, m.variables)
                          ELSE messages
           /\ toast' = ToastAfter(m)
    /\ UNCHANGED <<maxMessages, now>>
    /\ UNCHANGED <<policyVars, appVars>>

\* lines 289-294: a direct call of the hook's sendMessage
SendMessage(message, apiKey) == Issue(message, apiKey, FALSE)

\* src/unnamed/part_002 lines 84-112 (AIChat.handleSend), reached by the send
\* button or the Enter key, both disabled while isLoading or without a key
HandleSend(input, apiKey) ==
    /\ ~isLoading
    /\ apiKey # <<>>
    /\ IF Trim(input) = <<>>
       THEN /\ toast' = "Please enter a message"
            /\ UNCHANGED <<maxMessages, messages, mutations, now>>
       ELSE IF apiKey = <<>>
       THEN /\ toast' = "Please configure your OpenAI API key first"
            /\ UNCHANGED <<maxMessages, messages, mutations, now>>
       ELSE IF ~isValidApiKey(apiKey)
       THEN /\ toast' = "Invalid API key format"
            /\ UNCHANGED <<maxMessages, messages, mutations, now>>
       ELSE Issue(Trim(input), apiKey, TRUE)
    /\ UNCHANGED <<policyVars, appVars>>

\* chatModel.invoke resolves: the assistant message is built, then onSuccess
\* runs, d milliseconds later
ReplyOk(i, response, d) ==
    /\ i \in Pending
    /\ mutations[i].stage = "invoked"
    /\ LET m == Succeeded(mutations[i], response, now)
       IN  /\ messages' = onSuccess(messages, m.data, m.variables, maxMessages, now + d)
           /\ mutations' = Observed(Render([mutations EXCEPT ![i] = m], messages'))
           /\ toast' = ToastAfter(m)
    /\ now' = now + d
    /\ UNCHANGED maxMessages
    /\ UNCHANGED <<policyVars, appVars>>

\* chatModel.invoke rejects: lines 252-254, then the retry policy
ReplyFail(i, thrown) ==
    /\ i \in Pending
    /\ mutations[i].stage = "invoked"
    /\ LET m == Failed(mutations[i], parseAIError(thrown))
       IN  /\ messages' = IF m.status = "error"
                          THEN onError(messages, m.error, m.variables)
                          ELSE messages
           /\ mutations' = Observed(Render([mutations EXCEPT ![i] = m], messages'))
           /\ toast' = ToastAfter(m)
    /\ UNCHANGED <<maxMessages, now>>
    /\ UNCHANGED <<policyVars, appVars>>

\* the retry delay has elapsed: the mutationFn runs again
RetryAttempt(i) ==
    /\ i \in Pending
    /\ mutations[i].stage = "retryDelay"
    /\ LET m == mutationFn(mutations[i], maxMessages)
       IN  /\ mutations' = Observed([mutations EXCEPT ![i] = m])
           /\ toast' = ToastAfter(m)
    /\ UNCHANGED <<maxMessages, messages, now>>
    /\ UNCHANGED <<policyVars, appVars>>

\* clearHistory keeping the first stored turn
clearHistoryKeepsFirst ==
    /\ messages' = SubSeq(messages, 1, Min(1, Len(messages)))
    /\ mutations' = Render(mutations, messages')
    /\ toast' = "none"
    /\ UNCHANGED <<maxMessages, now>>
    /\ UNCHANGED <<policyVars, appVars>>

\* lines 299-301
clearHistory ==
    /\ messages' = <<>>
    /\ mutations' = Render(mutations, messages')
    /\ toast' = "none"
    /\ UNCHANGED <<maxMessages, now>>
    /\ UNCHANGED <<policyVars, appVars>>

\* lines 306-311
reset(newMessages) ==
    /\ messages' = newMessages
    /\ mutations' = Render(mutations, messages')
    /\ toast' = "none"
    /\ UNCHANGED <<maxMessages, now>>
    /\ UNCHANGED <<policyVars, appVars>>

\* src/unnamed/part_002 lines 134-137 (AIChat.handleClear); the button is
\* disabled while there are no messages
HandleClear ==
    /\ messages # <<>>
    /\ messages' = <<>>
    /\ mutations' = Render(mutations, messages')
    /\ toast' = "Conversation cleared"
    /\ UNCHANGED <<maxMessages, now>>
    /\ UNCHANGED <<policyVars, appVars>>

\* The callers of Spec are synchronised, as AIChat is by disabling its
\* controls: sendMessage is called while no send is pending.
Next ==
    \/ \E t \in UserTexts, k \in ApiKeys : Pending = {} /\ SendMessage(t, k)
    \/ \E t \in Inputs, k \in ApiKeys : HandleSend(t, k)
    \/ \E i \in 1..MaxSends, r \in Responses : ReplyOk(i, r, 0)
    \/ \E i \in 1..MaxSends, f \in Failures : ReplyFail(i, f)
    \/ \E i \in 1..MaxSends : RetryAttempt(i)
    \/ clearHistory
    \/ \E l \in MessageLists : reset(l)
    \/ HandleClear

Spec == Init /\ [][Next]_vars

\* The retry and classification policy of errorHandling.ts on its own: a
\* failure and a failure count are drawn, and each function is applied once.
InitPolicy ==
    /\ maxMessages = 0
    /\ messages = <<>>
    /\ mutations = <<>>
    /\ toast = "none"
    /\ now = 0
    /\ description \in Descriptions
    /\ failure \in Thrown(description)
    /\ failCount \in 0..MaxFailureCount
    /\ classified = NoError
    /\ retried = {}
    /\ delays = <<>>
    /\ AppIdle

\* parseAIError(failure)
CallParseAIError ==
    /\ classified = NoError
    /\ classified' = parseAIError(failure)
    /\ UNCHANGED <<description, failure, failCount, retried, delays>>
    /\ UNCHANGED <<chatVars, appVars>>

\* retryConfig.retry(failCount, failure)
CallRetry ==
    /\ retried = {}
    /\ retried' = {retry(failCount, failure)}
    /\ UNCHANGED <<description, failure, failCount, classified, delays>>
    /\ UNCHANGED <<chatVars, appVars>>

\* retryConfig.retryDelay(attemptIndex) for the attempt indexes 0..failCount
CallRetryDelay ==
    /\ delays = <<>>
    /\ delays' = [n \in 1..(failCount + 1) |-> retryDelay(n - 1)]
    /\ UNCHANGED <<description, failure, failCount, classified, retried>>
    /\ UNCHANGED <<chatVars, appVars>>

NextPolicy ==
    \/ CallParseAIError
    \/ CallRetry
    \/ CallRetryDelay

SpecPolicy == InitPolicy /\ [][NextPolicy]_vars

\* The AIChat component alone drives the hook: every send goes through
\* handleSend and every clear through handleClear.
NextUI ==
    \/ \E t \in Inputs, k \in ApiKeys : HandleSend(t, k)
    \/ \E i \in 1..MaxSends, r \in Responses : ReplyOk(i, r, 0)
    \/ \E i \in 1..MaxSends, f \in Failures : ReplyFail(i, f)
    \/ \E i \in 1..MaxSends : RetryAttempt(i)
    \/ HandleClear

SpecUI == Init /\ [][NextUI]_vars

\* A caller that does not wait: it calls sendMessage a second time while its
\* first send may still be pending, which the hook allows. The behaviours are
\* those of the two sends of such a race.
InitConcurrent ==
    /\ maxMessages \in 0..(MaxBound + 1)
    /\ messages \in MessageLists
    /\ mutations = <<>>
    /\ toast = "none"
    /\ now = 0
    /\ PolicyIdle
    /\ AppIdle

NextConcurrent ==
    \/ \E t \in UserTexts, k \in ApiKeys :
          Len(mutations) <= 1 /\ SendMessage(t, k)
    \/ \E i \in 1..MaxSends, r \in Responses : ReplyOk(i, r, 0)
    \/ \E i \in 1..MaxSends, f \in Failures : ReplyFail(i, f)
    \/ \E i \in 1..MaxSends : RetryAttempt(i)

SpecConcurrent == InitConcurrent /\ [][NextConcurrent]_vars

\* The AIChat component as App mounts it: the hook is configured with
\* maxMessages 10 and no initialMessages, and the user sends one message
\* after the other.
InitDefault ==
    /\ maxMessages = DefaultMaxMessages
    /\ messages = <<>>
    /\ mutations = <<>>
    /\ toast = "none"
    /\ now = 0
    /\ PolicyIdle
    /\ AppIdle

NextDefault ==
    \/ \E t \in Inputs, k \in ApiKeys : HandleSend(t, k)
    \/ \E i \in 1..MaxIssued : ReplyOk(i, [kind |-> "string", text |-> <<"o", "k">>], 0)
    \/ \E i \in 1..MaxIssued, f \in Failures : ReplyFail(i, f)
    \/ \E i \in 1..MaxIssued : RetryAttempt(i)

SpecDefault == InitDefault /\ [][NextDefault]_vars

\* The clock moves while a send completes: onSuccess and the updater it gives
\* to setMessages run after mutationFn has stamped the assistant message, in
\* the same millisecond or up to MaxLag milliseconds later.
NextClock ==
    \/ \E t \in UserTexts, k \in ApiKeys : Pending = {} /\ SendMessage(t, k)
    \/ \E i \in 1..MaxSends, r \in Responses, d \in 0..MaxLag : ReplyOk(i, r, d)
    \/ \E i \in 1..MaxSends, f \in Failures : ReplyFail(i, f)
    \/ \E i \in 1..MaxSends : RetryAttempt(i)

SpecClock == Init /\ [][NextClock]_vars

----------------------------------------------------------------------------
(* The API key of the application: useApiKey, ApiKeyConfig and App *)

\* what the build finds in VITE_OPENAI_API_KEY: nothing, an empty or blank
\* string, or a key
EnvKeys == {Null, <<>>, <<" ">>, Key(s_sk \o <<"e">>, 24)}

\* what an earlier visit has left in localStorage
StoredKeys == {Null, Key(s_sk \o <<"s">>, 24)}

\* what the user types into the modal
TypedKeys ==
    {<<" ">>,
     Key(<<"p", "k", "-">>, 21),
     Key(s_sk, 19),
     Key(s_sk, 20),
     Key(s_sk, 21),
     <<" ">> \o Key(s_sk, 21) \o <<" ">>}

\* the keys a caller hands to saveApiKey
SavedKeys == {Key(s_sk \o <<"u">>, 24)}

InitKeys ==
    /\ env \in EnvKeys
    /\ \E k \in StoredKeys :
          localStorage = [key \in StorageKeys |->
                             IF key = API_KEY_STORAGE_KEY THEN k ELSE Null]
    /\ hooks = [c \in Components |-> useApiKeyState]
    /\ apiKeyConfig = ApiKeyConfigState
    /\ savedRecipes = <<>>
    /\ conversation = ConversationalAIState
    /\ ChatIdle
    /\ PolicyIdle

\* every instance has run its mount effect
Mounted == \A c \in Components : hooks[c].isInitialized

\* useApiKey.ts lines 35-67: the mount effects of the page, run after its
\* first render
MountEffects ==
    /\ ~Mounted
    /\ hooks' = [c \in Components |->
                    useEffect(hooks[c], env, localStorage[API_KEY_STORAGE_KEY])]
    /\ UNCHANGED <<env, localStorage, apiKeyConfig, savedRecipes, conversation>>
    /\ UNCHANGED <<chatVars, policyVars>>

\* useApiKey.ts lines 69-72, called on the instance of component c
saveApiKey(c, key) ==
    /\ Mounted
    /\ localStorage' = [localStorage EXCEPT ![API_KEY_STORAGE_KEY] = key]
    /\ hooks' = [hooks EXCEPT ![c].apiKey = key]
    /\ UNCHANGED <<env, apiKeyConfig, savedRecipes, conversation>>
    /\ UNCHANGED <<chatVars, policyVars>>

\* useApiKey.ts lines 74-78, called on the instance of component c
clearApiKey(c) ==
    /\ Mounted
    /\ localStorage' = [localStorage EXCEPT ![API_KEY_STORAGE_KEY] = Null]
    /\ hooks' = [hooks EXCEPT ![c].apiKey = Null, ![c].showModal = TRUE]
    /\ UNCHANGED <<env, apiKeyConfig, savedRecipes, conversation>>
    /\ UNCHANGED <<chatVars, policyVars>>

\* App.tsx lines 32-52: the Change / Configure button
OpenModal ==
    /\ Mounted
    /\ ~showModal(hooks["App"])
    /\ hooks' = [hooks EXCEPT !["App"].showModal = TRUE]
    /\ UNCHANGED <<env, localStorage, apiKeyConfig, savedRecipes, conversation>>
    /\ UNCHANGED <<chatVars, policyVars>>

\* ApiKeyConfig.tsx line 106: the user edits the input of the open modal
onChange(value) ==
    /\ showModal(hooks["App"])
    /\ apiKeyConfig' = [apiKeyConfig EXCEPT !.apiKey = value]
    /\ UNCHANGED <<env, localStorage, hooks, savedRecipes, conversation>>
    /\ UNCHANGED <<chatVars, policyVars>>

\* ApiKeyConfig.tsx lines 27-64, with App's saveApiKey as onSave and its
\* setShowModal as onOpenChange
handleSave ==
    /\ showModal(hooks["App"])
    /\ LET trimmedKey == Trim(apiKeyConfig.apiKey)
       IN  IF ~Truthy(trimmedKey)
           THEN /\ apiKeyConfig' = [apiKeyConfig EXCEPT !.error = "API key is required"]
                /\ UNCHANGED <<localStorage, hooks>>
           ELSE IF ~isValidApiKey(trimmedKey)
           THEN /\ apiKeyConfig' = [apiKeyConfig EXCEPT !.error = "Invalid API key format"]
                /\ UNCHANGED <<localStorage, hooks>>
           ELSE /\ localStorage' = [localStorage EXCEPT ![API_KEY_STORAGE_KEY] = trimmedKey]
                /\ hooks' = [hooks EXCEPT !["App"].apiKey = trimmedKey,
                                          !["App"].showModal = FALSE]
                /\ apiKeyConfig' = [apiKey |-> <<>>, error |-> ""]
    /\ UNCHANGED <<env, savedRecipes, conversation>>
    /\ UNCHANGED <<chatVars, policyVars>>

\* ApiKeyConfig.tsx lines 66-70
handleCancel ==
    /\ showModal(hooks["App"])
    /\ apiKeyConfig' = [apiKey |-> <<>>, error |-> ""]
    /\ hooks' = [hooks EXCEPT !["App"].showModal = FALSE]
    /\ UNCHANGED <<env, localStorage, savedRecipes, conversation>>
    /\ UNCHANGED <<chatVars, policyVars>>

\* the page is loaded again: every component is constructed anew, the build
\* and localStorage stay
Reload ==
    /\ Mounted
    /\ hooks' = [c \in Components |-> useApiKeyState]
    /\ apiKeyConfig' = ApiKeyConfigState
    /\ UNCHANGED <<env, localStorage, savedRecipes, conversation>>
    /\ UNCHANGED <<chatVars, policyVars>>

NextKeys ==
    \/ MountEffects
    \/ \E c \in Components, k \in SavedKeys : saveApiKey(c, k)
    \/ \E c \in Components : clearApiKey(c)
    \/ OpenModal
    \/ \E v \in TypedKeys : onChange(v)
    \/ handleSave
    \/ handleCancel
    \/ Reload

SpecKeys == InitKeys /\ [][NextKeys]_vars

----------------------------------------------------------------------------
(* The saved recipes of useRecipeGenerator *)

\* the recipes a caller saves; two recipes made in the same millisecond
\* carry the same id
Recipes ==
    {Recipe("recipe-1", "Carbonara", 1),
     Recipe("recipe-1", "Ramen", 1),
     Recipe("recipe-2", "Ramen", 2)}

RecipeIds == {"recipe-1", "recipe-2", "recipe-3"}

\* the lists an earlier visit has saved
RecipeLists == UNION {[1..n -> Recipes] : n \in 0..MaxInit}

\* a fresh mount: nothing is stored, or what an earlier visit has written
InitRecipes ==
    /\ \E stored \in {Null} \cup {stringifyRecipes(l) : l \in RecipeLists} :
          /\ localStorage = [key \in StorageKeys |->
                                IF key = STORAGE_KEY THEN stored ELSE Null]
          /\ savedRecipes = loadSavedRecipes(stored)
    /\ env = Null
    /\ hooks = [c \in Components |-> useApiKeyState]
    /\ apiKeyConfig = ApiKeyConfigState
    /\ conversation = ConversationalAIState
    /\ ChatIdle
    /\ PolicyIdle

\* clearSavedRecipes leaving the stored list where it is
clearSavedRecipesInMemory ==
    /\ savedRecipes' = <<>>
    /\ UNCHANGED <<env, localStorage, hooks, apiKeyConfig, conversation>>
    /\ UNCHANGED <<chatVars, policyVars>>

\* lines 157-170
saveRecipe(recipe) ==
    /\ Len(savedRecipes) < MaxSaved
    /\ LET updated == Append(savedRecipes, recipe)
       IN  /\ savedRecipes' = updated
           /\ localStorage' = [localStorage EXCEPT ![STORAGE_KEY] = stringifyRecipes(updated)]
    /\ UNCHANGED <<env, hooks, apiKeyConfig, conversation>>
    /\ UNCHANGED <<chatVars, policyVars>>

\* lines 175-185
deleteRecipe(recipeId) ==
    /\ LET updated == SelectSeq(savedRecipes, LAMBDA r : r.id # recipeId)
       IN  /\ savedRecipes' = updated
           /\ localStorage' = [localStorage EXCEPT ![STORAGE_KEY] = stringifyRecipes(updated)]
    /\ UNCHANGED <<env, hooks, apiKeyConfig, conversation>>
    /\ UNCHANGED <<chatVars, policyVars>>

\* lines 190-197
clearSavedRecipes ==
    /\ savedRecipes' = <<>>
    /\ localStorage' = [localStorage EXCEPT ![STORAGE_KEY] = Null]
    /\ UNCHANGED <<env, hooks, apiKeyConfig, conversation>>
    /\ UNCHANGED <<chatVars, policyVars>>

NextRecipes ==
    \/ \E r \in Recipes : saveRecipe(r)
    \/ \E id \in RecipeIds : deleteRecipe(id)
    \/ clearSavedRecipes

SpecRecipes == InitRecipes /\ [][NextRecipes]_vars

----------------------------------------------------------------------------
(* The ConversationalAI component (src/unnamed/part_001) *)

\* what the user types into the input
Typed == {<<>>, <<"h">>, <<"y">>}

\* response.content of what chain.invoke resolves with
Replies == {<<"o", "k">>, <<"n", "o">>}

\* the message of what chain.invoke, or the construction of the model,
\* throws
Thrown_messages == {"boom"}

InitConversation ==
    /\ env \in {Null, Key(s_sk \o <<"e">>, 24)}
    /\ conversation = ConversationalAIState
    /\ localStorage = [key \in StorageKeys |-> Null]
    /\ hooks = [c \in Components |-> useApiKeyState]
    /\ apiKeyConfig = ApiKeyConfigState
    /\ savedRecipes = <<>>
    /\ ChatIdle
    /\ PolicyIdle

\* lines 21-57: handleSend up to the await of chain.invoke; the input and
\* the buttons are disabled while loading
ConversationalAI_handleSend(input) ==
    /\ ~conversation.loading
    /\ Len(conversation.messages) < MaxShown
    /\ Trim(input) # <<>>
    /\ IF ~Truthy(env)
       THEN conversation' =
                [conversation EXCEPT
                    !.error = "Please set VITE_OPENAI_API_KEY in your environment"]
       ELSE conversation' =
                [conversation EXCEPT
                    !.messages = Append(@, Message("user", input)),
                    !.loading = TRUE,
                    !.error = "",
                    !.invoked = [input |-> input, history |-> conversation.chatHistory]]
    /\ UNCHANGED <<env, localStorage, hooks, apiKeyConfig, savedRecipes>>
    /\ UNCHANGED <<chatVars, policyVars>>

\* lines 54-75: chain.invoke resolves with response.content = content
Resolved(content) ==
    /\ conversation.loading
    /\ conversation' =
           [conversation EXCEPT
               !.messages = Append(@, Message("assistant", content)),
               !.chatHistory = @ \o <<HumanMessage(conversation.invoked.input),
                                      AIMessage(content)>>,
               !.loading = FALSE,
               !.invoked = NoCall]
    /\ UNCHANGED <<env, localStorage, hooks, apiKeyConfig, savedRecipes>>
    /\ UNCHANGED <<chatVars, policyVars>>

\* lines 71-75: the try block throws
Rejected(message) ==
    /\ conversation.loading
    /\ conversation' =
           [conversation EXCEPT
               !.error = message,
               !.loading = FALSE,
               !.invoked = NoCall]
    /\ UNCHANGED <<env, localStorage, hooks, apiKeyConfig, savedRecipes>>
    /\ UNCHANGED <<chatVars, policyVars>>

\* lines 78-82: handleClear; the button is disabled while loading
ConversationalAI_handleClear ==
    /\ ~conversation.loading
    /\ conversation' =
           [conversation EXCEPT !.messages = <<>>, !.chatHistory = <<>>, !.error = ""]
    /\ UNCHANGED <<env, localStorage, hooks, apiKeyConfig, savedRecipes>>
    /\ UNCHANGED <<chatVars, policyVars>>

NextConversation ==
    \/ \E input \in Typed : ConversationalAI_handleSend(input)
    \/ \E r \in Replies : Resolved(r)
    \/ \E m \in Thrown_messages : Rejected(m)
    \/ ConversationalAI_handleClear

SpecConversation == InitConversation /\ [][NextConversation]_vars

----------------------------------------------------------------------------
(* Notions the claims are stated in *)

\* the mutations whose state is still held
Held == {i \in 1..Len(mutations) : mutations[i].stage # "collected"}

\* mutation i settles successfully in this step: its onSuccess appends
Appends(i) ==
    /\ i \in 1..Len(mutations)
    /\ mutations[i].status = "pending"
    /\ mutations'[i].status = "success"

\* mutation i is handed to the collaborator in this step
Dispatched(i) ==
    /\ i \in 1..Len(mutations')
    /\ mutations'[i].stage = "invoked"
    /\ mutations'[i].calls > (IF i <= Len(mutations) THEN mutations[i].calls ELSE 0)

\* mutation i is issued in this step
Issued(i) == i = Len(mutations') /\ Len(mutations') = Len(mutations) + 1

\* the last n elements of s
LastN(s, n) == SubSeq(s, Len(s) - n + 1, Len(s))

\* the turns come in (user, assistant) pairs
Paired(turns) ==
    /\ Len(turns) % 2 = 0
    /\ \A i \in 1..Len(turns) :
          turns[i].role = (IF i % 2 = 1 THEN "user" ELSE "assistant")

\* the text is empty or all whitespace
Blank(text) == \A j \in 1..Len(text) : text[j] \in {" ", "\t", "\n"}

\* the credential is present but misses the prefix or the minimum length
BadFormat(apiKey) ==
    /\ apiKey # <<>>
    /\ \/ Len(apiKey) < 20
       \/ <<apiKey[1], apiKey[2], apiKey[3]>> # <<"s", "k", "-">>

GoodKey(apiKey) == apiKey # <<>> /\ ~BadFormat(apiKey)

\* a is what remains of b once its oldest elements are dropped
Suffix(a, b) == Len(a) <= Len(b) /\ a = LastN(b, Len(a))

\* the LangChain message a stored turn is sent as
Sent(turn) ==
    [type |-> IF turn.role = "user" THEN "human" ELSE "ai",
     content |-> turn.content]

----------------------------------------------------------------------------
(* Claims *)

\* C1: whatever maxMessages is configured, an append to a store that is
\* within its bound (the empty store included) leaves at most
\* 2 * maxMessages turns stored.
C1_BoundAfterAppend ==
    [][\A i \in 1..Len(mutations) :
          (Appends(i) /\ Len(messages) <= 2 * maxMessages)
              => Len(messages') <= 2 * maxMessages]_vars

\* C2: when a send fails (an attempt is rejected, whether it is retried or
\* settles the send as an error) the stored turns are left exactly as they
\* were: no user turn, no placeholder.
C2_FailureLeavesStore ==
    [][\A i \in 1..Len(mutations') :
          \/ /\ Issued(i)
             /\ mutations'[i].stage # "invoked"
          \/ /\ ~Issued(i)
             /\ mutations[i].stage = "invoked"
             /\ mutations'[i].status # "success"
             /\ mutations'[i].stage # "invoked"
          => messages' = messages]_vars

\* C2 witness: the collaborator was invoked for a send that settled as an
\* error while turns are stored
C2_Witness ==
    \E i \in Held :
        /\ mutations[i].status = "error"
        /\ mutations[i].calls >= 1
        /\ messages # <<>>

\* C3 as stated: in every reachable state the turns are (user, assistant)
\* pairs.
C3_AlwaysPaired == Paired(messages)

\* C3 amended: a store of (user, assistant) pairs stays one through every
\* send, failed or successful, and every clear; only a reset to a list that
\* is not made of pairs breaks the pairing.
C3_PairingPreserved ==
    [][(Paired(messages) /\ ~Paired(messages'))
          => \E l \in MessageLists : ~Paired(l) /\ reset(l)]_vars

\* C3 witness: a successful send filled a store of pairs up to its bound
C3_Witness ==
    /\ maxMessages >= 1
    /\ Paired(messages)
    /\ Len(messages) = 2 * maxMessages
    /\ \E i \in Held : mutations[i].status = "success"

C5_ExactlyOneCall ==
    \A i \in Held :
        (mutations[i].stage = "settled" /\ GoodKey(mutations[i].variables.apiKey))
            => /\ mutations[i].calls = 1
               /\ mutations[i].appends
                      = (IF mutations[i].status = "success" THEN 1 ELSE 0)

\* C5 amended: a send whose preconditions pass invokes the collaborator once
\* per attempt, at least once and at most 4 times (the first attempt and up
\* to 3 retries), and changes the store exactly once if it succeeds and
\* never if it fails.
C5_CallsAndAppends ==
    /\ \A i \in Held :
          GoodKey(mutations[i].variables.apiKey)
              => /\ mutations[i].calls \in 1..4
                 /\ mutations[i].calls
                        = mutations[i].failureCount
                            + (IF mutations[i].stage = "retryDelay" THEN 0 ELSE 1)
    /\ \A i \in 1..Len(mutations) :
          mutations[i].appends = (IF mutations[i].status = "success" THEN 1 ELSE 0)

\* C5 witness: a send succeeded on its fourth attempt
C5_Witness ==
    \E i \in Held :
        /\ mutations[i].status = "success"
        /\ mutations[i].calls = 4
        /\ mutations[i].appends = 1

\* C6: a send whose text is empty after trimming, made with a valid
\* credential, fails without the collaborator being invoked (and so without
\* a change of the store).
C6_BlankNeverInvoked ==
    \A i \in Held :
        (Blank(mutations[i].variables.message) /\ GoodKey(mutations[i].variables.apiKey))
            => /\ mutations[i].status = "error"
               /\ mutations[i].calls = 0
               /\ mutations[i].appends = 0

\* C7: a send with an absent credential settles at once as a NO_API_KEY
\* error that is not retryable: no retry is scheduled, the collaborator is
\* not invoked and the store is unchanged.
C7_MissingCredential ==
    [][\A i \in 1..Len(mutations') :
          (Issued(i) /\ mutations'[i].variables.apiKey = <<>>)
              => /\ mutations'[i].status = "error"
                 /\ mutations'[i].stage = "settled"
                 /\ mutations'[i].error.type = "AIError"
                 /\ mutations'[i].error.code = "NO_API_KEY"
                 /\ ~mutations'[i].error.isRetryable
                 /\ mutations'[i].failureCount = 0
                 /\ mutations'[i].calls = 0
                 /\ messages' = messages]_vars

\* C7 witness: a send without credential has failed while turns are stored
C7_Witness ==
    \E i \in Held :
        /\ mutations[i].variables.apiKey = <<>>
        /\ mutations[i].status = "error"
        /\ mutations[i].error.code = "NO_API_KEY"
        /\ messages # <<>>

\* the kind that classifying an "unauthorized" collaborator failure gives
ClassifiedInvalidCredential == parseAIError(Error(s_unauthorized)).code

\* C8 as stated: a send with a credential of bad format fails without the
\* collaborator being invoked, with a kind other than the one classification
\* gives to an invalid credential.
C8_DistinctFormatKind ==
    \A i \in Held :
        BadFormat(mutations[i].variables.apiKey)
            => /\ mutations[i].status = "error"
               /\ mutations[i].calls = 0
               /\ mutations[i].error.code # ClassifiedInvalidCredential

\* C8 amended: a send with a credential of bad format settles at once as a
\* non-retryable INVALID_API_KEY error, the same code that classification
\* gives to an invalid credential; the collaborator is not invoked and the
\* store is unchanged.
C8_FormatRefusedLocally ==
    [][\A i \in 1..Len(mutations') :
          (Issued(i) /\ BadFormat(mutations'[i].variables.apiKey))
              => /\ mutations'[i].status = "error"
                 /\ mutations'[i].stage = "settled"
                 /\ mutations'[i].error.type = "AIError"
                 /\ mutations'[i].error.code = "INVALID_API_KEY"
                 /\ mutations'[i].error.code = ClassifiedInvalidCredential
                 /\ ~mutations'[i].error.isRetryable
                 /\ mutations'[i].failureCount = 0
                 /\ mutations'[i].calls = 0
                 /\ messages' = messages]_vars

\* C8 witness: a send with a short "sk-" credential has failed
C8_Witness ==
    \E i \in Held :
        /\ Len(mutations[i].variables.apiKey) \in 3..19
        /\ SubSeq(mutations[i].variables.apiKey, 1, 3) = <<"s", "k", "-">>
        /\ mutations[i].status = "error"
        /\ mutations[i].error.code = "INVALID_API_KEY"

\* the exchange of mutation i, answered with response r, ends the store
\* after this step, and the assistant turn stored is the one returned
ExchangeStored(i, r) ==
    /\ Len(messages') >= 2
    /\ messages'[Len(messages') - 1].role = "user"
    /\ messages'[Len(messages') - 1].content = mutations[i].variables.message
    /\ messages'[Len(messages')].role = "assistant"
    /\ r.kind = "string" => messages'[Len(messages')].content = r.text
    /\ mutations'[i].stage # "collected"
           => mutations'[i].data = messages'[Len(messages')]

\* C9 as stated: a successful send stores its exchange last and returns the
\* reply, and the store grows by exactly 2 whenever it was below its bound.
C9_GrowsByTwoBelowBound ==
    [][\A i \in 1..Len(mutations), r \in Responses :
          ReplyOk(i, r, 0)
              => /\ ExchangeStored(i, r)
                 /\ Len(messages) < 2 * maxMessages
                        => Len(messages') = Len(messages) + 2]_vars

\* C9 amended: a successful send stores its exchange last and returns the
\* reply, and the store grows by exactly 2 whenever it had room for a whole
\* exchange (at most 2 * maxMessages - 2 turns).
C9_GrowsByTwoWithRoom ==
    [][\A i \in 1..Len(mutations), r \in Responses :
          ReplyOk(i, r, 0)
              => /\ ExchangeStored(i, r)
                 /\ Len(messages) + 2 <= 2 * maxMessages
                        => Len(messages') = Len(messages) + 2]_vars

\* C9 witness: the observed send succeeded and its exchange ends the store
C9_Witness ==
    \E i \in Held :
        /\ mutations[i].status = "success"
        /\ Len(messages) >= 2
        /\ messages[Len(messages)] = mutations[i].data
        /\ messages[Len(messages) - 1].role = "user"
        /\ messages[Len(messages) - 1].content = mutations[i].variables.message

\* C10: the sequence handed to the collaborator is the last
\* min(2 * maxMessages, number stored) turns, oldest first with their roles,
\* followed by one user turn with the submitted text; the store is unchanged.
C10_OutboundIsWindow ==
    [][\A i \in 1..Len(mutations') :
          Dispatched(i)
              => LET n == Min(2 * maxMessages, Len(messages))
                     window == LastN(messages, n)
                     out == mutations'[i].outbound
                 IN  /\ Len(out) = n + 1
                     /\ out[Len(out)] = [type |-> "human",
                                         content |-> mutations'[i].variables.message]
                     /\ \A j \in 1..Min(n, Len(out) - 1) :
                           /\ out[j].content = window[j].content
                           /\ out[j].type = (IF window[j].role = "user"
                                             THEN "human" ELSE "ai")
                     /\ messages' = messages]_vars

C12_SingleFlight ==
    /\ Cardinality(Pending) <= 1
    /\ \A i \in 1..Len(mutations), j \in 1..Len(mutations) :
          (j < i) => /\ mutations[j].status # "pending"
                     /\ mutations[j].stage = "collected"

\* C12 witness: a second send was made through AIChat after the first had
\* succeeded, and its exchange ends the store
C12_Witness ==
    /\ Len(mutations) = 2
    /\ mutations[1].appends = 1
    /\ mutations[2].ui
    /\ mutations[2].status = "success"
    /\ Len(messages) >= 2
    /\ messages[Len(messages) - 1].content = mutations[2].variables.message

\* a request is outstanding that was dispatched with stored turns, and the
\* store has been emptied since
ClearedWhileOutstanding(i) ==
    /\ i \in Pending
    /\ mutations[i].stage = "invoked"
    /\ Len(mutations[i].outbound) > 1
    /\ messages = <<>>

\* C13: a dispatched request is not cancelled by a clear or a reset: when its
\* reply arrives the exchange is appended to whatever the store then holds,
\* so the store is not empty after it; after a clear it holds exactly the
\* late exchange.
C13_LateReplyAppended ==
    [][\A i \in 1..Len(mutations), r \in Responses :
          ReplyOk(i, r, 0)
              => /\ messages' # <<>>
                 /\ Len(messages') >= 2
                 /\ messages'[Len(messages') - 1]
                        = ChatMessage("user", mutations[i].variables.message, now - 1)
                 /\ messages'[Len(messages')].role = "assistant"
                 /\ ClearedWhileOutstanding(i) => Len(messages') = 2]_vars

\* C13 witness: the store was cleared while a request dispatched with a
\* stored turn is outstanding; its reply can only arrive late
C13_Witness ==
    \E i \in Held : ClearedWhileOutstanding(i)

\* word w occurs in description d
Mentions(d, w) == \E j \in 1..Len(d) : d[j] = w

\* the code and retryability that the first rule met by description d gives
FirstRule(d) ==
    IF Mentions(d, w_API_key) /\ Mentions(d, w_Not) THEN <<"NO_API_KEY", FALSE>>
    ELSE IF Mentions(d, w_INVALID) \/ Mentions(d, w_Unauthorized)
        THEN <<"INVALID_API_KEY", FALSE>>
    ELSE IF Mentions(d, w_Rate_Limit) \/ Mentions(d, w_429) THEN <<"RATE_LIMIT", TRUE>>
    ELSE IF Mentions(d, w_Network) \/ Mentions(d, w_fetch) THEN <<"NETWORK_ERROR", TRUE>>
    ELSE IF Mentions(d, w_TIMEOUT) THEN <<"TIMEOUT", TRUE>>
    ELSE IF Mentions(d, w_Model) THEN <<"MODEL_ERROR", TRUE>>
    ELSE <<"UNKNOWN", TRUE>>

C15_Every429RateLimited ==
    (classified # NoError /\ failure.type = "Error" /\ Mentions(description, w_429))
        => /\ classified.code = "RATE_LIMIT"
           /\ classified.isRetryable

\* C15 amended: a failure whose description contains "429", and neither
\* "api key" with "not" nor "invalid" nor "unauthorized", is classified
\* RATE_LIMIT, retryable.
C15_429RateLimited ==
    (/\ classified # NoError
     /\ failure.type = "Error"
     /\ Mentions(description, w_429)
     /\ ~(Mentions(description, w_API_key) /\ Mentions(description, w_Not))
     /\ ~Mentions(description, w_INVALID)
     /\ ~Mentions(description, w_Unauthorized))
        => /\ classified.code = "RATE_LIMIT"
           /\ classified.isRetryable

\* C15 witness: a description with "429" and a word of a later rule has
\* been classified
C15_Witness ==
    /\ description = <<w_Network, w_429>>
    /\ classified # NoError
    /\ classified.code = "RATE_LIMIT"

\* the delays the backoff table gives to attempts 1..6
BackoffTable == <<1000, 2000, 4000, 8000, 16000, 30000>>

\* C17: the delay of attempt n (counted from 1) is
\* min(1000 * 2^(n-1), 30000): 1000, 2000, 4000, 8000, 16000, 30000 for the
\* attempts 1..6; the delays never decrease and never exceed 30000.
C17_BackoffCapped ==
    \A n \in 1..Len(delays) :
        /\ n <= 6 => delays[n] = BackoffTable[n]
        /\ delays[n] = (IF n <= 5 THEN 1000 * 2 ^ (n - 1) ELSE 30000)
        /\ delays[n] <= 30000
        /\ n > 1 => delays[n - 1] <= delays[n]

\* C17 witness: the delays of the attempts 1..6 have been computed
C17_Witness ==
    /\ Len(delays) = 6
    /\ delays[6] = 30000

\* the codes defined in ERROR_CODES
Codes == {ERROR_CODES[k] : k \in DOMAIN ERROR_CODES}

\* C16: every failing send is reported as a classified error: a send that
\* has failed holds an AIError with a code of ERROR_CODES and has stored
\* nothing, a send that succeeded holds no error, and a rejected attempt is
\* either retried or settles the send as an error, never as a success and
\* never with the send left unsettled.
C16_FailuresClassified ==
    /\ [](\A i \in Held :
             /\ mutations[i].status = "error"
                   => /\ mutations[i].error.type = "AIError"
                      /\ mutations[i].error.code \in Codes
                      /\ mutations[i].stage = "settled"
                      /\ mutations[i].data = NoData
                      /\ mutations[i].appends = 0
             /\ mutations[i].status = "success"
                   => /\ mutations[i].error = NoError
                      /\ mutations[i].data # NoData
             /\ mutations[i].status = "pending"
                   => mutations[i].stage \in {"invoked", "retryDelay"})
    /\ [][\A i \in 1..Len(mutations), f \in Failures :
             ReplyFail(i, f)
                 => \/ mutations'[i].status = "error"
                    \/ /\ mutations'[i].status = "pending"
                       /\ mutations'[i].stage = "retryDelay"
                       /\ mutations'[i].failureCount = mutations[i].failureCount + 1]_vars

\* C16 witness: a send settled as an UNKNOWN error after the collaborator
\* threw four times
C16_Witness ==
    \E i \in Held :
        /\ mutations[i].status = "error"
        /\ mutations[i].error.code = "UNKNOWN"
        /\ mutations[i].calls = 4

\* C18 as stated: for one send the collaborator is attempted no more than 3
\* times in total.
C18_AtMostThreeAttempts ==
    \A i \in Held : mutations[i].calls <= 3

\* C18 amended: the retry policy grants at most 3 retries: for one send the
\* collaborator is attempted no more than 4 times in total, and a send that
\* keeps failing with a retryable error settles as an error after exactly 4
\* attempts.
C18_AtMostThreeRetries ==
    \A i \in Held :
        /\ mutations[i].failureCount <= 3
        /\ mutations[i].calls <= 4
        /\ (mutations[i].status = "error" /\ mutations[i].error.isRetryable)
              => /\ mutations[i].failureCount = 3
                 /\ mutations[i].calls = 4

\* C18 witness: a send has given up after the collaborator answered its
\* fourth attempt with a rate limit
C18_Witness ==
    \E i \in Held :
        /\ mutations[i].status = "error"
        /\ mutations[i].error.code = "RATE_LIMIT"
        /\ mutations[i].failureCount = 3
        /\ mutations[i].calls = 4

\* the codes of the failures that are not retryable
NonRetryable == {"NO_API_KEY", "INVALID_API_KEY"}

C21_DefaultKeepsTen ==
    /\ Len(messages) <= DefaultMaxMessages
    /\ \A i \in Held :
          mutations[i].stage = "invoked"
              => Len(mutations[i].outbound) - 1 <= DefaultMaxMessages

\* C22: whatever the (non-decreasing) clock does between the reply and its
\* onSuccess, the user turn of an exchange appended by a successful send is
\* stamped strictly earlier than its assistant reply, so that the timestamps
\* do not decrease from the one to the other.
C22_UserBeforeAssistant ==
    [][\A i \in 1..Len(mutations) :
          Appends(i)
              => LET n == Len(messages') IN
                 /\ n >= 2
                 /\ messages'[n - 1].role = "user"
                 /\ messages'[n].role = "assistant"
                 /\ messages'[n - 1].timestamp < messages'[n].timestamp]_vars

\* a string with a character that is not whitespace
NonBlank(v) == v # Null /\ ~Blank(v)

\* a key is stored under 'openai-api-key'
Stored(v) == v # Null /\ v # <<>>

\* C23: when the useApiKey instances initialise, the apiKey of each is the
\* environment key if that is a non-blank string, whatever localStorage
\* holds; otherwise the key in localStorage if one is stored; otherwise no
\* key, and the modal is shown in that third case only.
C23_InitialKey ==
    [][MountEffects
          => \A c \in Components :
                LET stored == localStorage[API_KEY_STORAGE_KEY]
                    hook == hooks'[c]
                IN  /\ hook.isInitialized
                    /\ NonBlank(env) => hook.apiKey = env
                    /\ (~NonBlank(env) /\ Stored(stored)) => hook.apiKey = stored
                    /\ (~NonBlank(env) /\ ~Stored(stored)) => hook.apiKey = Null
                    /\ showModal(hook) <=> (~NonBlank(env) /\ ~Stored(stored))]_vars

\* C23 witness: the page has initialised with a non-blank environment key
\* while localStorage holds another key, and every instance has the
\* environment key and shows no modal
C23_Witness ==
    /\ Mounted
    /\ NonBlank(env)
    /\ Stored(localStorage[API_KEY_STORAGE_KEY])
    /\ localStorage[API_KEY_STORAGE_KEY] # env
    /\ \A c \in Components : hooks[c].apiKey = env /\ ~showModal(hooks[c])

\* C24: with a non-blank environment key configured, the apiKey every
\* initialised useApiKey instance returns is the environment key, whatever
\* saveApiKey, clearApiKey and reloads came before.
C24_EnvKeyPrevails ==
    NonBlank(env)
        => \A c \in Components :
              hooks[c].isInitialized => hooks[c].apiKey = env

\* the modal saves the key typed into it in this step
SavesTypedKey ==
    /\ handleSave
    /\ apiKeyConfig.apiKey # <<>>
    /\ localStorage'[API_KEY_STORAGE_KEY] = Trim(apiKeyConfig.apiKey)
    /\ apiKeyConfig'.error = ""
    /\ apiKeyConfig'.apiKey = <<>>

\* C25: on a first visit (no environment key, nothing in localStorage), when
\* the user saves a valid key in the modal, the modal closes and AI Chat,
\* Recipe Generator and Simple AI Query all have that key as their apiKey,
\* with no reload.
C25_SavedKeyReachesFeatures ==
    [][(/\ SavesTypedKey
        /\ env = Null
        /\ localStorage[API_KEY_STORAGE_KEY] = Null)
          => /\ ~showModal(hooks'["App"])
             /\ \A f \in Features :
                   apiKeyOf(f)' = localStorage'[API_KEY_STORAGE_KEY]]_vars

\* C26: the modal accepts exactly the keys its message describes: the typed
\* key (trimmed) is saved if and only if it starts with "sk-" and is at
\* least 20 characters long, 20 included; isValidApiKey decides.
C26_AcceptsFromTwenty ==
    [][handleSave
          => LET key == Trim(apiKeyConfig.apiKey)
             IN  (/\ Len(key) >= 20
                  /\ <<key[1], key[2], key[3]>> = <<"s", "k", "-">>)
                     <=> /\ localStorage'[API_KEY_STORAGE_KEY] = key
                         /\ hooks'["App"].apiKey = key
                         /\ apiKeyConfig'.error = ""]_vars

\* an attempt of mutation i starts or ends in this step
Attempted(i) ==
    \/ Issued(i)
    \/ /\ i \in 1..Len(mutations)
       /\ mutations[i].status = "pending"
       /\ <<mutations'[i].stage, mutations'[i].failureCount, mutations'[i].calls>>
              # <<mutations[i].stage, mutations[i].failureCount, mutations[i].calls>>

\* C27: one call of sendMessage appends at most one exchange, however many
\* attempts the retry policy makes: the step in which an attempt succeeds
\* appends the exchange of the send once (the store then ends with it and is
\* what remains of the old store followed by it), every other step of a send
\* (a rejected attempt, a retry, the settling as an error) leaves the store
\* as it is; so a send that succeeded has appended once and a send that
\* failed or is still pending has appended nothing.
C27_OneExchangePerSend ==
    /\ [](\A i \in Held :
            mutations[i].appends = (IF mutations[i].status = "success" THEN 1 ELSE 0))
    /\ [][\A i \in 1..Len(mutations') :
             /\ (i <= Len(mutations) /\ Appends(i))
                   => LET exchange ==
                              <<ChatMessage("user", mutations[i].variables.message, now' - 1),
                                ChatMessage("assistant", mutations'[i].data.content, now)>>
                      IN  /\ mutations[i].appends = 0
                          /\ Suffix(messages', messages \o exchange)
                          /\ Suffix(exchange, messages')
             /\ (Attempted(i) /\ ~(i <= Len(mutations) /\ Appends(i)))
                   => messages' = messages]_vars

\* C27 witness: a send succeeded on its third attempt, after two rejected
\* ones, and the store that was empty holds its one exchange
C27_Witness ==
    \E i \in Held :
        /\ mutations[i].status = "success"
        /\ mutations[i].failureCount = 2
        /\ mutations[i].calls = 3
        /\ mutations[i].appends = 1
        /\ Len(messages) = 2
        /\ messages[2] = mutations[i].data

\* C28: for every maxMessages >= 0, 0 included, the window of a request and
\* the trim after a successful send keep exactly the last 2 * maxMessages
\* turns (all of them while there are fewer); with maxMessages = 0 the
\* request carries the new user turn alone and the store is empty after
\* every successful send.
C28_KeepsLastTwiceBound ==
    [][\A i \in 1..Len(mutations') :
          /\ Dispatched(i)
                => /\ Len(mutations'[i].outbound)
                          = Min(2 * maxMessages, Len(messages)) + 1
                   /\ maxMessages = 0
                          => mutations'[i].outbound
                                 = <<HumanMessage(mutations'[i].variables.message)>>
          /\ (i <= Len(mutations) /\ Appends(i))
                => /\ Len(messages') = Min(2 * maxMessages, Len(messages) + 2)
                   /\ maxMessages = 0 => messages' = <<>>]_vars

C30_DisplayMatchesHistory ==
    ~conversation.loading
        => /\ Len(conversation.chatHistory) = Len(conversation.messages)
           /\ \A j \in 1..Len(conversation.messages) :
                 /\ j <= Len(conversation.chatHistory)
                 /\ conversation.chatHistory[j] = Sent(conversation.messages[j])

====
